---- MODULE Spec2Model ----
(***************************************************************************)
(* buftui: the navigation state machine (model.Update in main.go), the     *)
(* fetch commands of client.go and the reference parser parseReference.    *)
(*                                                                         *)
(* Text is a sequence of one-character strings, so that parseReference     *)
(* is computed character by character as strings.Count / strings.Cut do.   *)
(* The bubbletea runtime is the event loop: a command returned by Update   *)
(* runs on its own goroutine and its message is handed back to Update; the *)
(* commands that have not yet handed back their message are `pending`.     *)
(***************************************************************************)
EXTENDS Naturals, Integers, Sequences, FiniteSets, Bags, TLC

\* address is the remote of the address the client is made for (newClient,
\* client.go:198-204), remoteFlag the value of --remote.
VARIABLES m, pending, started, running, last, referenceFlag, parsedFlag,
          silent, remoteFlag, address

vars ==
    <<m, pending, started, running, last, referenceFlag, parsedFlag, silent,
      remoteFlag, address>>

(***************************************************************************)
(* Bounds of the model.                                                    *)
(***************************************************************************)
\* Commands the program starts in one run (bubbletea sets no limit), when
\* the user leaves the help as it is and when he toggles it.
MaxStarted == 4
MaxStartedHelp == 3

\* The same, when the remote may leave requests without an answer.
MaxStartedLive == 2

\* Length of the references the parser is run on, letter by letter.
MaxRefLen == 8

\* Texts the user submits with enter in the search input: "b" is an owner
\* with modules, "b/rg" the locator of a module.
UserTexts == { <<"b">>, <<"b", "/", "r", "g">> }

\* References given with the -r flag at startup.
StartupReferences == { <<>>, <<"b", "/", "r", "g", ":", "c">> }

(***************************************************************************)
(* Program constants.                                                      *)
(***************************************************************************)
MaxOwnerLen == 32
MinModuleLen == 2

\* modelState, main.go:818-830
modelStateBrowsingModules == "BrowsingModules"
modelStateBrowsingCommits == "BrowsingCommits"
modelStateBrowsingCommitContents == "BrowsingCommitContents"
modelStateBrowsingCommitFileContents == "BrowsingCommitFileContents"
modelStateSearching == "Searching"
modelStateLoadingReference == "LoadingReference"
modelStateLoadingModules == "LoadingModules"
modelStateLoadingCommits == "LoadingCommits"
modelStateLoadingCommitFileContents == "LoadingCommitFileContents"

LoadingStates ==
    { modelStateLoadingReference, modelStateLoadingModules,
      modelStateLoadingCommits, modelStateLoadingCommitFileContents }

BrowsingStates ==
    { modelStateBrowsingModules, modelStateBrowsingCommits,
      modelStateBrowsingCommitContents, modelStateBrowsingCommitFileContents }

\* keys, main.go:1315-1350 (the keys of each binding)
QuitKeys == { "q", "esc", "ctrl+c" }
HelpKeys == { "?" }
SearchKeys == { "s" }
EnterKeys == { "enter" }
RightKeys == { "right", "l" }
LeftKeys == { "left", "h" }
UpKeys == { "up", "k" }
DownKeys == { "down", "j" }

\* Keys that are one printable character (tea.KeyRunes with one rune).
RuneKeys == { "q", "?", "s", "l", "h", "k", "j", "b", "/", "r", "g" }

\* A paste: one key message of type tea.KeyRunes that carries several runes.
PasteKey == "[/rg]"

\* msg.Runes of a key message
Runes(key) ==
    IF key \in RuneKeys THEN <<key>>
    ELSE IF key = PasteKey THEN <<"/", "r", "g">>
    ELSE <<>>

\* The keys the user types text with, which he does in the search input.
TextKeys == { "b", PasteKey }

\* The keys the user presses.
Keys == { "q", "s", "enter", "l", "h", "j", "b", PasteKey }

(***************************************************************************)
(* Strings.                                                                *)
(***************************************************************************)
\* strings.Count(s, sep) for a one-character sep
Count(s, ch) == Cardinality({ i \in 1..Len(s) : s[i] = ch })

\* strings.Cut(s, sep) for a one-character sep
Cut(s, ch) ==
    IF \E i \in 1..Len(s) : s[i] = ch
    THEN LET i == CHOOSE j \in 1..Len(s) :
                      s[j] = ch /\ \A l \in 1..(j - 1) : s[l] # ch
         IN  [before |-> SubSeq(s, 1, i - 1),
              after |-> SubSeq(s, i + 1, Len(s)),
              found |-> TRUE]
    ELSE [before |-> s, after |-> <<>>, found |-> FALSE]

(***************************************************************************)
(* parseReference, main.go:1252-1300.                                      *)
(***************************************************************************)
\* *modulev1.ResourceRef_Name; child is <<>> when Child is nil, else <<ref>>
ResourceRefName(owner, module, child) ==
    [owner |-> owner, module |-> module, child |-> child]

NoName == ResourceRefName(<<>>, <<>>, <<>>)

ParseResult(kind, remote, name) ==
    [kind |-> kind, remote |-> remote, name |-> name]

\* validator.Validate(moduleRef): the rules the tests of parseReference
\* rely on (owner present and at most 32 long, module at least 2 long).
Validate(name) ==
    /\ Len(name.owner) >= 1
    /\ Len(name.owner) <= MaxOwnerLen
    /\ Len(name.module) >= MinModuleLen

\* The tail of parseReference, from the cut of owner and module on.
ParseOwnerModule(remote, first, hasReference, reference) ==
    LET c == Cut(first, "/")
        moduleRef ==
            ResourceRefName(c.before, c.after,
                            IF hasReference THEN <<reference>> ELSE <<>>)
    IN  IF ~c.found
        THEN ParseResult("panic", <<>>, NoName)
        ELSE IF ~Validate(moduleRef)
        THEN ParseResult("validation", <<>>, NoName)
        ELSE ParseResult("ok", remote, moduleRef)

\* parseReference without the check of the number of ":".
parseReference_NoColonCheck(reference) ==
    IF reference = <<>>
    THEN ParseResult("none", <<>>, NoName)
    ELSE
    LET slashCount == Count(reference, "/")
        c1 == Cut(reference, ":")
        c2 == Cut(c1.before, "/")
    IN  IF slashCount # 1 /\ slashCount # 2
        THEN ParseResult("syntax", <<>>, NoName)
        ELSE IF slashCount = 2
        THEN IF ~c2.found
             THEN ParseResult("panic", <<>>, NoName)
             ELSE ParseOwnerModule(c2.before, c2.after, c1.found, c1.after)
        ELSE ParseOwnerModule(<<>>, c1.before, c1.found, c1.after)

\* parseReference that keeps a flag between its calls: a call after the
\* first takes every reference that is not empty for malformed.
parseReference_Stateful(reference) ==
    IF reference = <<>>
    THEN ParseResult("none", <<>>, NoName)
    ELSE
    LET slashCount == Count(reference, "/")
        c1 == Cut(reference, ":")
        c2 == Cut(c1.before, "/")
    IN  IF parsedFlag.kind # "unparsed"
        THEN ParseResult("syntax", <<>>, NoName)
        ELSE IF slashCount # 1 /\ slashCount # 2
        THEN ParseResult("syntax", <<>>, NoName)
        ELSE IF Count(reference, ":") > 1
        THEN ParseResult("syntax", <<>>, NoName)
        ELSE IF slashCount = 2
        THEN IF ~c2.found
             THEN ParseResult("panic", <<>>, NoName)
             ELSE ParseOwnerModule(c2.before, c2.after, c1.found, c1.after)
        ELSE ParseOwnerModule(<<>>, c1.before, c1.found, c1.after)

\* kind: "none" (empty reference, nil name and nil error), "ok", "syntax",
\* "validation" (an error is returned) or "panic".
parseReference(reference) ==
    IF reference = <<>>
    THEN ParseResult("none", <<>>, NoName)
    ELSE
    LET slashCount == Count(reference, "/")
        c1 == Cut(reference, ":")
        c2 == Cut(c1.before, "/")
    IN  IF slashCount # 1 /\ slashCount # 2
        THEN ParseResult("syntax", <<>>, NoName)
        ELSE IF Count(reference, ":") > 1
        THEN ParseResult("syntax", <<>>, NoName)
        ELSE IF slashCount = 2
        THEN IF ~c2.found
             THEN ParseResult("panic", <<>>, NoName)
             ELSE ParseOwnerModule(c2.before, c2.after, c1.found, c1.after)
        ELSE ParseOwnerModule(<<>>, c1.before, c1.found, c1.after)

(***************************************************************************)
(* Fetch commands, client.go:213-320.  A command is the closure a client   *)
(* method returns: the operation and the arguments it captured.            *)
(***************************************************************************)
Cmd(op, owner, module, commit, child) ==
    [op |-> op, owner |-> owner, module |-> module, commit |-> commit,
     child |-> child]

NoCmd == Cmd("none", <<>>, <<>>, <<>>, <<>>)

listModules(currentOwner) ==
    Cmd("listModules", currentOwner, <<>>, <<>>, <<>>)

listCommits(currentOwner, currentModule) ==
    Cmd("listCommits", currentOwner, currentModule, <<>>, <<>>)

getCommitContent(currentOwner, currentModule, commitName) ==
    Cmd("getCommitContent", currentOwner, currentModule, commitName, <<>>)

getResource(resourceName) ==
    Cmd("getResource", resourceName.owner, resourceName.module, <<>>,
        resourceName.child)

\* The request a getResource command carries.
RequestedResource(cmd) == ResourceRefName(cmd.owner, cmd.module, cmd.child)

(***************************************************************************)
(* The remote (the registry behind the four services): what it holds and   *)
(* the answers it can give to a request.                                   *)
(***************************************************************************)
OwnerB == <<"b">>
ModuleRG == <<"r", "g">>
ModuleMD == <<"m", "d">>
CommitC == <<"c">>
CommitD == <<"d">>

File(path, content) == [path |-> path, content |-> content]

RemoteModules(owner) ==
    IF owner = OwnerB THEN <<ModuleRG, ModuleMD>> ELSE <<>>

RemoteCommits(owner, module) ==
    IF owner = OwnerB /\ module = ModuleRG THEN <<CommitC, CommitD>> ELSE <<>>

RemoteFiles(owner, module, commit) ==
    IF owner = OwnerB /\ module = ModuleRG /\ commit = CommitC
    THEN <<File("buf.yaml", "yaml"), File("a.proto", "proto")>>
    ELSE <<>>

\* Resources the remote can resolve a name to (modulev1.Resource.Value).
RemoteResources ==
    { [kind |-> "Module", name |-> ModuleRG, id |-> <<>>],
      [kind |-> "Module", name |-> ModuleMD, id |-> <<>>],
      [kind |-> "Commit", name |-> <<>>, id |-> CommitC],
      [kind |-> "Commit", name |-> <<>>, id |-> CommitD],
      [kind |-> "Label", name |-> <<>>, id |-> <<>>],
      [kind |-> "Unset", name |-> <<>>, id |-> <<>>] }

\* Number of entries a Download or GetResources response can hold.
ResponseCounts == { 0, 1, 2 }

(***************************************************************************)
(* Messages.                                                               *)
(***************************************************************************)
Msg(type, key, items, err, requested, retrieved) ==
    [type |-> type, key |-> key, items |-> items, err |-> err,
     requested |-> requested, retrieved |-> retrieved]

NoResource == [kind |-> "none", name |-> <<>>, id |-> <<>>]

KeyMsg(key) == Msg("KeyMsg", key, <<>>, "", NoName, NoResource)
errMsg(err) == Msg("errMsg", "", <<>>, err, NoName, NoResource)
modulesMsg(items) == Msg("modulesMsg", "", items, "", NoName, NoResource)
commitsMsg(items) == Msg("commitsMsg", "", items, "", NoName, NoResource)
contentsMsg(files) == Msg("contentsMsg", "", files, "", NoName, NoResource)
resourceMsg(requested, retrieved) ==
    Msg("resourceMsg", "", <<>>, "", requested, retrieved)
NoMsg == Msg("none", "", <<>>, "", NoName, NoResource)

\* The messages the closure of listModules can return, client.go:215-233
listModulesRun(cmd) ==
    { errMsg("listing modules"), modulesMsg(RemoteModules(cmd.owner)) }

\* client.go:237-256
listCommitsRun(cmd) ==
    { errMsg("getting commits"),
      commitsMsg(RemoteCommits(cmd.owner, cmd.module)) }

\* getCommitContentReply that takes the first bundle of the response
\* without the check of their number.
getCommitContentReply_FirstBundle(cmd, n) ==
    IF n = 0
    THEN contentsMsg(<<>>)
    ELSE contentsMsg(RemoteFiles(cmd.owner, cmd.module, cmd.commit))

\* client.go:282-286: the message for a Download response of n bundles
getCommitContentReply(cmd, n) ==
    IF n # 1
    THEN errMsg("requested 1 commit contents")
    ELSE contentsMsg(RemoteFiles(cmd.owner, cmd.module, cmd.commit))

\* client.go:260-288
getCommitContentRun(cmd) ==
    { errMsg("getting commit content") }
        \cup { getCommitContentReply(cmd, n) : n \in ResponseCounts }

\* client.go:297-320
getResourceRun(cmd) ==
    { errMsg("getting resource") }
        \cup { IF n # 1
               THEN errMsg("requested 1 resource")
               ELSE resourceMsg(RequestedResource(cmd), r) :
               n \in ResponseCounts, r \in RemoteResources }

\* Running a command: the messages it can deliver.
RunCmd(cmd) ==
    CASE cmd.op = "listModules" -> listModulesRun(cmd)
      [] cmd.op = "listCommits" -> listCommitsRun(cmd)
      [] cmd.op = "getCommitContent" -> getCommitContentRun(cmd)
      [] cmd.op = "getResource" -> getResourceRun(cmd)

(***************************************************************************)
(* The model struct, main.go:837-866, and the bubbles sub-models as far as *)
(* Update reads them.                                                      *)
(***************************************************************************)
\* list.New(items, ...): the items and the cursor, on the first item
ListNew(items) == [items |-> items, index |-> 0]

\* list.Model.SelectedItem(): <<>> for nil, else <<item>>
SelectedItem(l) ==
    IF l.index < Len(l.items) THEN <<l.items[l.index + 1]>> ELSE <<>>

\* list.Model.Update(msg) for a key: the cursor moves on up and down
ListUpdate(l, key) ==
    IF key \in DownKeys /\ l.index + 1 < Len(l.items)
    THEN [l EXCEPT !.index = l.index + 1]
    ELSE IF key \in UpKeys /\ l.index > 0
    THEN [l EXCEPT !.index = l.index - 1]
    ELSE l

\* textinput.Model.Update(msg) for a key: the runes of the message are
\* inserted at the end, where the cursor of the input of newSearchInput stays
TextInputUpdate(value, key) == value \o Runes(key)

\* highlightFile, main.go:1225-1250: the file's text, coloured with the lexer
\* that matches the file name
highlightFile(filename, fileContents) ==
    [ok |-> TRUE, text |-> <<"tty256", filename, fileContents>>]

\* The contents of the file of that path, main.go:1004-1010 and 1123-1129
FileContents(files, selectedFileName) ==
    IF \E i \in 1..Len(files) : files[i].path = selectedFileName
    THEN LET i == CHOOSE j \in 1..Len(files) :
                      /\ files[j].path = selectedFileName
                      /\ \A l \in 1..(j - 1) : files[l].path # selectedFileName
         IN  files[i].content
    ELSE ""

\* What Update hands back to the runtime: the new model, the fetch command
\* (NoCmd for nil) and how the call ends: "" (returns), "quit" (returns
\* tea.Quit) or "panic".
Return(mm, cmd) == [m |-> mm, cmd |-> cmd, exit |-> ""]
ReturnQuit(mm) == [m |-> mm, cmd |-> NoCmd, exit |-> "quit"]
Panic(mm) == [m |-> mm, cmd |-> NoCmd, exit |-> "panic"]

(***************************************************************************)
(* model.Update, main.go:876-1142.                                         *)
(***************************************************************************)
\* UpdateResource with the owner taken from the model, not from the request
\* that the message carries.
UpdateResource_CurrentOwner(mm, msg) ==
    IF msg.retrieved.kind = "Module"
    THEN LET m1 == [mm EXCEPT !.currentModule = msg.retrieved.name,
                              !.state = modelStateLoadingCommits]
         IN  Return(m1, listCommits(m1.currentOwner, m1.currentModule))
    ELSE IF msg.retrieved.kind = "Commit"
    THEN LET m1 == [mm EXCEPT !.currentModule = msg.requested.module,
                              !.currentCommit = msg.retrieved.id,
                              !.state = modelStateLoadingCommitFileContents]
         IN  Return(m1, getCommitContent(m1.currentOwner, m1.currentModule,
                                         m1.currentCommit))
    ELSE ReturnQuit([mm EXCEPT !.err = "cannot handle type resource"])

\* UpdateResource that records the error of an unsupported resource as
\* case errMsg does, without tea.Quit.
UpdateResource_UnsupportedNoQuit(mm, msg) ==
    IF msg.retrieved.kind = "Module"
    THEN LET m1 == [mm EXCEPT !.currentOwner = msg.requested.owner,
                              !.currentModule = msg.retrieved.name,
                              !.state = modelStateLoadingCommits]
         IN  Return(m1, listCommits(m1.currentOwner, m1.currentModule))
    ELSE IF msg.retrieved.kind = "Commit"
    THEN LET m1 == [mm EXCEPT !.currentOwner = msg.requested.owner,
                              !.currentModule = msg.requested.module,
                              !.currentCommit = msg.retrieved.id,
                              !.state = modelStateLoadingCommitFileContents]
         IN  Return(m1, getCommitContent(m1.currentOwner, m1.currentModule,
                                         m1.currentCommit))
    ELSE Return([mm EXCEPT !.err = "cannot handle type resource"], NoCmd)

\* case resourceMsg, main.go:883-904
UpdateResource(mm, msg) ==
    IF msg.retrieved.kind = "Module"
    THEN LET m1 == [mm EXCEPT !.currentOwner = msg.requested.owner,
                              !.currentModule = msg.retrieved.name,
                              !.state = modelStateLoadingCommits]
         IN  Return(m1, listCommits(m1.currentOwner, m1.currentModule))
    ELSE IF msg.retrieved.kind = "Commit"
    THEN LET m1 == [mm EXCEPT !.currentOwner = msg.requested.owner,
                              !.currentModule = msg.requested.module,
                              !.currentCommit = msg.retrieved.id,
                              !.state = modelStateLoadingCommitFileContents]
         IN  Return(m1, getCommitContent(m1.currentOwner, m1.currentModule,
                                         m1.currentCommit))
    ELSE ReturnQuit([mm EXCEPT !.err = "cannot handle type resource"])

\* UpdateModules that takes the modules for the end of an earlier failure
\* and clears the error.
UpdateModules_ClearsErr(mm, msg) ==
    LET m1 == [mm EXCEPT !.state = modelStateBrowsingModules,
                         !.currentModules = msg.items,
                         !.err = ""]
    IN  IF Len(m1.currentModules) = 0
        THEN Return(m1, NoCmd)
        ELSE Return([m1 EXCEPT !.moduleList = ListNew(m1.currentModules)],
                    NoCmd)

\* case modulesMsg, main.go:906-936
UpdateModules(mm, msg) ==
    LET m1 == [mm EXCEPT !.state = modelStateBrowsingModules,
                         !.currentModules = msg.items]
    IN  IF Len(m1.currentModules) = 0
        THEN Return(m1, NoCmd)
        ELSE Return([m1 EXCEPT !.moduleList = ListNew(m1.currentModules)],
                    NoCmd)

\* case commitsMsg, main.go:938-966
UpdateCommits(mm, msg) ==
    LET m1 == [mm EXCEPT !.state = modelStateBrowsingCommits,
                         !.currentCommits = msg.items]
    IN  IF Len(m1.currentCommits) = 0
        THEN Return(m1, NoCmd)
        ELSE Return([m1 EXCEPT !.commitList = ListNew(m1.currentCommits)],
                    NoCmd)

\* The viewport shows the selected file, main.go:998-1017 and 1117-1135
ShowSelectedFile(mm) ==
    LET item == SelectedItem(mm.commitFilesList)
        selectedFileName == item[1].path
        highlighted ==
            highlightFile(selectedFileName,
                          FileContents(mm.currentCommitFiles, selectedFileName))
    IN  IF item = <<>>
        THEN Panic(mm)
        ELSE IF ~highlighted.ok
        THEN ReturnQuit([mm EXCEPT !.err = "can't highlight file"])
        ELSE Return([mm EXCEPT !.fileViewport = highlighted.text], NoCmd)

\* case contentsMsg, main.go:968-1017
UpdateContents(mm, msg) ==
    ShowSelectedFile([mm EXCEPT !.state = modelStateBrowsingCommitContents,
                                !.currentCommitFiles = msg.items,
                                !.commitFilesList = ListNew(msg.items),
                                !.fileViewport = <<>>])

\* UpdateErr that fetches the modules of the owner again after an error.
UpdateErr_Retry(mm, msg) ==
    Return([mm EXCEPT !.err = msg.err], listModules(mm.currentOwner))

\* case errMsg, main.go:1019-1021
UpdateErr(mm, msg) == Return([mm EXCEPT !.err = msg.err], NoCmd)

\* Dispatch that moves the cursor of the list of files and leaves the
\* viewport with what it showed.
Dispatch_StaleViewport(mm, key) ==
    CASE mm.state = modelStateBrowsingModules ->
            Return([mm EXCEPT !.moduleList = ListUpdate(mm.moduleList, key)],
                   NoCmd)
      [] mm.state = modelStateBrowsingCommits ->
            Return([mm EXCEPT !.commitList = ListUpdate(mm.commitList, key)],
                   NoCmd)
      [] mm.state = modelStateBrowsingCommitContents ->
            Return([mm EXCEPT !.commitFilesList =
                                  ListUpdate(mm.commitFilesList, key)],
                   NoCmd)
      [] mm.state = modelStateSearching ->
            Return([mm EXCEPT !.searchInput =
                                  TextInputUpdate(mm.searchInput, key)],
                   NoCmd)
      [] OTHER -> Return(mm, NoCmd)

\* The sub-model of the state gets the message, main.go:1109-1141
Dispatch(mm, key) ==
    CASE mm.state = modelStateBrowsingModules ->
            Return([mm EXCEPT !.moduleList = ListUpdate(mm.moduleList, key)],
                   NoCmd)
      [] mm.state = modelStateBrowsingCommits ->
            Return([mm EXCEPT !.commitList = ListUpdate(mm.commitList, key)],
                   NoCmd)
      [] mm.state = modelStateBrowsingCommitContents ->
            ShowSelectedFile(
                [mm EXCEPT !.commitFilesList =
                               ListUpdate(mm.commitFilesList, key)])
      [] mm.state = modelStateSearching ->
            Return([mm EXCEPT !.searchInput =
                                  TextInputUpdate(mm.searchInput, key)],
                   NoCmd)
      [] OTHER -> Return(mm, NoCmd)

\* KeySearch that opens the search input with the text it held before.
KeySearch_KeepsText(mm, key) ==
    IF mm.state # modelStateSearching
    THEN Return([mm EXCEPT !.state = modelStateSearching], NoCmd)
    ELSE Dispatch(mm, key)

\* case key.Matches(msg, m.keys.Search), main.go:1029-1037
KeySearch(mm, key) ==
    IF mm.state # modelStateSearching
    THEN Return([mm EXCEPT !.state = modelStateSearching,
                           !.searchInput = <<>>],
                NoCmd)
    ELSE Dispatch(mm, key)

\* RightBrowsingModules without the check for an empty collection.
RightBrowsingModules_NoEmptyGuard(mm) ==
    LET item == SelectedItem(mm.moduleList)
        m1 == [mm EXCEPT !.state = modelStateLoadingCommits,
                         !.currentModule = item[1]]
    IN  IF item = <<>>
        THEN Panic(mm)
        ELSE Return(m1, listCommits(m1.currentOwner, m1.currentModule))

\* RightBrowsingModules with the command built from the module that was
\* current before the selection.
RightBrowsingModules_OldModule(mm) ==
    IF Len(mm.currentModules) = 0
    THEN Return(mm, NoCmd)
    ELSE LET item == SelectedItem(mm.moduleList)
             m1 == [mm EXCEPT !.state = modelStateLoadingCommits,
                              !.currentModule = item[1]]
         IN  IF item = <<>>
             THEN Panic(mm)
             ELSE Return(m1, listCommits(mm.currentOwner, mm.currentModule))

\* case modelStateBrowsingModules of the Right case, main.go:1049-1061
RightBrowsingModules(mm) ==
    IF Len(mm.currentModules) = 0
    THEN Return(mm, NoCmd)
    ELSE LET item == SelectedItem(mm.moduleList)
             m1 == [mm EXCEPT !.state = modelStateLoadingCommits,
                              !.currentModule = item[1]]
         IN  IF item = <<>>
             THEN Panic(mm)
             ELSE Return(m1, listCommits(m1.currentOwner, m1.currentModule))

\* case modelStateBrowsingCommits of the Right case, main.go:1062-1074
RightBrowsingCommits(mm) ==
    IF Len(mm.currentCommits) = 0
    THEN Return(mm, NoCmd)
    ELSE LET item == SelectedItem(mm.commitList)
             m1 == [mm EXCEPT !.state = modelStateLoadingCommitFileContents,
                              !.currentCommit = item[1]]
         IN  IF item = <<>>
             THEN Panic(mm)
             ELSE Return(m1, getCommitContent(m1.currentOwner,
                                              m1.currentModule,
                                              m1.currentCommit))

\* KeyRight that downloads the commit again when the file's view is entered.
KeyRight_FetchOnFocus(mm, key) ==
    CASE mm.state = modelStateBrowsingModules -> RightBrowsingModules(mm)
      [] mm.state = modelStateBrowsingCommits -> RightBrowsingCommits(mm)
      [] mm.state = modelStateBrowsingCommitContents ->
            Return([mm EXCEPT !.state = modelStateBrowsingCommitFileContents],
                   getCommitContent(mm.currentOwner, mm.currentModule,
                                    mm.currentCommit))
      [] OTHER -> Dispatch(mm, key)

\* case key.Matches(msg, m.keys.Right), main.go:1047-1080
KeyRight(mm, key) ==
    CASE mm.state = modelStateBrowsingModules -> RightBrowsingModules(mm)
      [] mm.state = modelStateBrowsingCommits -> RightBrowsingCommits(mm)
      [] mm.state = modelStateBrowsingCommitContents ->
            Return([mm EXCEPT !.state = modelStateBrowsingCommitFileContents],
                   NoCmd)
      [] OTHER -> Dispatch(mm, key)

\* case key.Matches(msg, m.keys.Enter), main.go:1038-1046
KeyEnter(mm, key) ==
    IF mm.state = modelStateSearching
    THEN LET m1 == [mm EXCEPT !.currentOwner = mm.searchInput]
         IN  Return(m1, listModules(m1.currentOwner))
    ELSE KeyRight(mm, key)

\* KeyLeft that goes back from the loading state of the commits as it does
\* from their browsing state.
KeyLeft_LoadingGoesBack(mm, key) ==
    CASE mm.state = modelStateBrowsingCommitFileContents ->
            Return([mm EXCEPT !.state = modelStateBrowsingCommitContents],
                   NoCmd)
      [] mm.state = modelStateBrowsingCommitContents ->
            Return([mm EXCEPT !.state = modelStateLoadingCommits],
                   listCommits(mm.currentOwner, mm.currentModule))
      [] mm.state \in { modelStateBrowsingCommits, modelStateLoadingCommits } ->
            Return([mm EXCEPT !.state = modelStateLoadingModules],
                   listModules(mm.currentOwner))
      [] OTHER -> Dispatch(mm, key)

\* KeyLeft that shows the collections the model still holds instead of
\* fetching them again.
KeyLeft_ReplayCache(mm, key) ==
    CASE mm.state = modelStateBrowsingCommitFileContents ->
            Return([mm EXCEPT !.state = modelStateBrowsingCommitContents],
                   NoCmd)
      [] mm.state = modelStateBrowsingCommitContents ->
            Return([mm EXCEPT !.state = modelStateBrowsingCommits], NoCmd)
      [] mm.state = modelStateBrowsingCommits ->
            Return([mm EXCEPT !.state = modelStateBrowsingModules], NoCmd)
      [] OTHER -> Dispatch(mm, key)

\* case key.Matches(msg, m.keys.Left), main.go:1081-1101
KeyLeft(mm, key) ==
    CASE mm.state = modelStateBrowsingCommitFileContents ->
            Return([mm EXCEPT !.state = modelStateBrowsingCommitContents],
                   NoCmd)
      [] mm.state = modelStateBrowsingCommitContents ->
            Return([mm EXCEPT !.state = modelStateLoadingCommits],
                   listCommits(mm.currentOwner, mm.currentModule))
      [] mm.state = modelStateBrowsingCommits ->
            Return([mm EXCEPT !.state = modelStateLoadingModules],
                   listModules(mm.currentOwner))
      [] OTHER -> Dispatch(mm, key)

\* KeyHelp that shows the help and never hides it.
KeyHelp_ShowOnly(mm, key) == Dispatch([mm EXCEPT !.help = TRUE], key)

\* case key.Matches(msg, m.keys.Help), main.go:1027-1028
KeyHelp(mm, key) == Dispatch([mm EXCEPT !.help = ~mm.help], key)

\* UpdateKey that hands the quit keys to the search input while it is open.
UpdateKey_QuitNotWhileSearching(mm, key) ==
    CASE key \in QuitKeys /\ mm.state # modelStateSearching -> ReturnQuit(mm)
      [] key \in HelpKeys -> KeyHelp(mm, key)
      [] key \in SearchKeys -> KeySearch(mm, key)
      [] key \in EnterKeys -> KeyEnter(mm, key)
      [] key \in RightKeys -> KeyRight(mm, key)
      [] key \in LeftKeys -> KeyLeft(mm, key)
      [] OTHER -> Dispatch(mm, key)

\* case tea.KeyMsg, main.go:1023-1102
UpdateKey(mm, key) ==
    CASE key \in QuitKeys -> ReturnQuit(mm)
      [] key \in HelpKeys -> KeyHelp(mm, key)
      [] key \in SearchKeys -> KeySearch(mm, key)
      [] key \in EnterKeys -> KeyEnter(mm, key)
      [] key \in RightKeys -> KeyRight(mm, key)
      [] key \in LeftKeys -> KeyLeft(mm, key)
      [] OTHER -> Dispatch(mm, key)

Update(mm, msg) ==
    CASE msg.type = "resourceMsg" -> UpdateResource(mm, msg)
      [] msg.type = "modulesMsg" -> UpdateModules(mm, msg)
      [] msg.type = "commitsMsg" -> UpdateCommits(mm, msg)
      [] msg.type = "contentsMsg" -> UpdateContents(mm, msg)
      [] msg.type = "errMsg" -> UpdateErr(mm, msg)
      [] msg.type = "KeyMsg" -> UpdateKey(mm, msg.key)

(***************************************************************************)
(* The program: run builds the model and bubbletea runs the event loop.    *)
(***************************************************************************)
\* The login of the remote in ~/.netrc, or the -u flag
Username == <<"u">>

\* The model literal of run, main.go:790-806
NewModel(parsedReference) ==
    [state |-> IF parsedReference.kind = "ok"
               THEN modelStateLoadingReference
               ELSE modelStateSearching,
     err |-> "",
     currentOwner |-> Username,
     currentModule |-> <<>>,
     currentCommit |-> <<>>,
     currentModules |-> <<>>,
     currentCommits |-> <<>>,
     currentCommitFiles |-> <<>>,
     currentReference |-> parsedReference,
     moduleList |-> ListNew(<<>>),
     commitList |-> ListNew(<<>>),
     commitFilesList |-> ListNew(<<>>),
     fileViewport |-> <<>>,
     searchInput |-> <<>>,
     help |-> FALSE]

\* modelInit that only starts the spinner.
modelInit_NoFetch(mm) == NoCmd

\* model.Init, main.go:868-874: the fetch command of the batch
modelInit(mm) ==
    IF mm.currentReference.kind = "ok"
    THEN getResource(mm.currentReference.name)
    ELSE NoCmd

\* The default of the --remote flag, main.go:733
DefaultRemote == <<"b", "u", "f", ".", "b", "u", "i", "l", "d">>

\* RemoteConflict that lets the --remote flag win over the reference.
RemoteConflict_Never(flag, parsedRemote) == FALSE

\* run, main.go:751: the flag and the reference name different remotes
RemoteConflict(flag, parsedRemote) ==
    parsedRemote # <<>> /\ flag # <<>> /\ flag # parsedRemote

\* cmp.Or(*remoteFlag, parsedRemote), main.go:755
EffectiveRemote(flag, parsedRemote) ==
    IF flag # <<>> THEN flag ELSE parsedRemote

\* run, main.go:751-759: the error of the remotes, "" when there is none
RemoteError(flag, parsedRemote) ==
    IF RemoteConflict(flag, parsedRemote)
    THEN "cannot provide conflicting remote flag and reference remote"
    ELSE IF EffectiveRemote(flag, parsedRemote) = <<>>
    THEN "remote cannot be empty"
    ELSE ""

\* The record of the last call of Update: the message, the command whose
\* message it was, the command returned and how the call ended.
Last(msg, from, cmd, exit) ==
    [msg |-> msg, from |-> from, cmd |-> cmd, exit |-> exit]

CmdBag(cmd) == IF cmd = NoCmd THEN EmptyBag ELSE SetToBag({cmd})

\* run, main.go:747-815: a reference that does not parse ends the program
\* before a model exists
Init ==
    \E reference \in StartupReferences :
        LET parsed == parseReference(reference)
            mm == NewModel(parsed)
        IN  /\ parsed.kind \in { "none", "ok" }
            /\ remoteFlag = DefaultRemote
            /\ RemoteError(remoteFlag, parsed.remote) = ""
            /\ address = EffectiveRemote(remoteFlag, parsed.remote)
            /\ m = mm
            /\ pending = CmdBag(modelInit(mm))
            /\ started = BagCardinality(CmdBag(modelInit(mm)))
            /\ running = "running"
            /\ last = Last(NoMsg, NoCmd, modelInit(mm), "")
            /\ referenceFlag = reference
            /\ parsedFlag = parsed
            /\ silent = {}

\* The texts the search input holds on the way to the user's texts
TypedTexts == { <<>> } \cup UserTexts

\* The program's model once the loop has handed msg to Update: what Update
\* returns, or the model as it was when Update panics.
After(mm, msg) ==
    LET r == Update(mm, msg) IN IF r.exit = "panic" THEN mm ELSE r.m

\* The event loop hands msg to Update and takes what it returns: the model
\* replaces the program's, the command is started, tea.Quit or a panic ends
\* the loop (a panic leaves the program's model as it was).
Handle(msg, from, rest, bound) ==
    LET r == Update(m, msg)
    IN  /\ r.cmd # NoCmd => started < bound
        /\ r.m.searchInput \in TypedTexts
        /\ m' = After(m, msg)
        /\ pending' = rest (+) CmdBag(r.cmd)
        /\ started' = started + BagCardinality(CmdBag(r.cmd))
        /\ running' = IF r.exit = "" THEN "running" ELSE r.exit
        /\ last' = Last(msg, from, r.cmd, r.exit)
        /\ UNCHANGED <<referenceFlag, parsedFlag, silent, remoteFlag, address>>

\* The user presses a key.
PressKey(key, bound) ==
    /\ running = "running"
    /\ key \in TextKeys => m.state = modelStateSearching
    /\ key \in EnterKeys /\ m.state = modelStateSearching
           => m.searchInput \in UserTexts
    /\ Handle(KeyMsg(key), NoCmd, pending, bound)

\* A command in flight finishes and its message reaches Update.
Complete(cmd, msg, bound) ==
    /\ running = "running"
    /\ BagIn(cmd, pending)
    /\ cmd \notin silent
    /\ msg \in RunCmd(cmd)
    /\ Handle(msg, cmd, pending (-) SetToBag({cmd}), bound)

Next ==
    \/ \E key \in Keys : PressKey(key, MaxStarted)
    \/ \E cmd \in BagToSet(pending) :
           \E msg \in RunCmd(cmd) : Complete(cmd, msg, MaxStarted)

Spec == Init /\ [][Next]_vars

\* The same program with a user who also toggles the help.
NextHelp ==
    \/ \E key \in Keys \cup HelpKeys : PressKey(key, MaxStartedHelp)
    \/ \E cmd \in BagToSet(pending) :
           \E msg \in RunCmd(cmd) : Complete(cmd, msg, MaxStartedHelp)

SpecHelp == Init /\ [][NextHelp]_vars

(***************************************************************************)
(* Properties.                                                             *)
(***************************************************************************)
\* The NavigationContext and the collections of a model
Context(mm) == <<mm.currentOwner, mm.currentModule, mm.currentCommit>>
Collections(mm) ==
    <<mm.currentModules, mm.currentCommits, mm.currentCommitFiles>>

FetchOps == { "listModules", "listCommits", "getCommitContent", "getResource" }

\* The number of commands of that operation in flight
InFlight(op) ==
    BagCardinality([c \in { d \in BagToSet(pending) : d.op = op } |->
                        CopiesIn(c, pending)])

IsKey(l, keys) == l.msg.type = "KeyMsg" /\ l.msg.key \in keys

\* C1: a commitsMsg of a listCommits issued for another module than the
\* current one is discarded: the step that processes it changes neither the
\* commits collection nor the state.
C1_StaleCommitsDiscarded ==
    [][(last'.msg.type = "commitsMsg" /\ last'.from.module # m.currentModule)
           => (m'.currentCommits = m.currentCommits /\ m'.state = m.state)]_vars

\* C2: an errMsg leaves the machine holding its error, and once an error is
\* held every message other than a quit key leaves the state, the context
\* and the collections as they are and starts no fetch.
C2_ErroredIsTerminal ==
    [][/\ last'.msg.type = "errMsg" => m'.err = last'.msg.err
       /\ (m.err # "" /\ ~IsKey(last', QuitKeys))
              => /\ m'.state = m.state
                 /\ Context(m') = Context(m)
                 /\ Collections(m') = Collections(m)
                 /\ last'.cmd = NoCmd]_vars

\* C3: at most one fetch of each level is in flight.
C3_OneFetchPerLevel == \A op \in FetchOps : InFlight(op) <= 1

AdvanceKeys == EnterKeys \cup RightKeys

\* C4: in a Loading state the advance keys and the back keys change neither
\* the state nor the context and start no fetch; a quit key still quits and
\* the help key still flips the help.
C4_LoadingIgnoresAdvanceAndBack ==
    m.state \in LoadingStates =>
        /\ \A key \in AdvanceKeys \cup LeftKeys :
               LET r == Update(m, KeyMsg(key))
               IN  /\ r.exit = ""
                   /\ r.cmd = NoCmd
                   /\ r.m.state = m.state
                   /\ Context(r.m) = Context(m)
        /\ \A key \in QuitKeys : Update(m, KeyMsg(key)).exit = "quit"
        /\ \A key \in HelpKeys :
               LET r == Update(m, KeyMsg(key))
               IN  r.exit = "" /\ r.m.help = ~m.help

\* An advance or back key was pressed in a Loading state with a fetch in
\* flight.
C4_Witness ==
    /\ m.state \in LoadingStates
    /\ IsKey(last, AdvanceKeys \cup LeftKeys)
    /\ last.cmd = NoCmd
    /\ pending # EmptyBag

\* C5: with an empty collection the advance keys do nothing in
\* BrowsingModules and in BrowsingCommits: the model is returned as it is,
\* with no command, no error and no exit.
C5_EmptyAdvanceIsNoOp ==
    (\/ m.state = modelStateBrowsingModules /\ m.currentModules = <<>>
     \/ m.state = modelStateBrowsingCommits /\ m.currentCommits = <<>>)
        => \A key \in AdvanceKeys : Update(m, KeyMsg(key)) = Return(m, NoCmd)

\* An advance key was pressed in BrowsingModules with no modules.
C5_Witness ==
    /\ m.state = modelStateBrowsingModules
    /\ m.currentModules = <<>>
    /\ IsKey(last, AdvanceKeys)
    /\ running = "running"

\* C6: with a non-empty collection an advance key in BrowsingModules makes
\* the module under the cursor the current module, moves to LoadingCommits
\* and returns listCommits of the current owner and that module; in
\* BrowsingCommits it makes the commit under the cursor the current commit,
\* moves to LoadingCommitFileContents and returns getCommitContent of the
\* current owner, the current module and that commit.
C6_AdvanceSelects ==
    \A key \in AdvanceKeys :
        /\ (m.state = modelStateBrowsingModules /\ m.currentModules # <<>>)
               => LET sel == m.currentModules[m.moduleList.index + 1]
                  IN  Update(m, KeyMsg(key)) =
                          Return([m EXCEPT !.state = modelStateLoadingCommits,
                                           !.currentModule = sel],
                                 listCommits(m.currentOwner, sel))
        /\ (m.state = modelStateBrowsingCommits /\ m.currentCommits # <<>>)
               => LET sel == m.currentCommits[m.commitList.index + 1]
                  IN  Update(m, KeyMsg(key)) =
                          Return([m EXCEPT
                                      !.state =
                                          modelStateLoadingCommitFileContents,
                                      !.currentCommit = sel],
                                 getCommitContent(m.currentOwner,
                                                  m.currentModule, sel))

\* An advance key has selected the second module of the list.
C6_Witness ==
    /\ IsKey(last, AdvanceKeys)
    /\ m.state = modelStateLoadingCommits
    /\ m.currentModules # <<>>
    /\ m.moduleList.index = 1
    /\ m.currentModule = m.currentModules[2]
    /\ last.cmd = listCommits(m.currentOwner, m.currentModule)

\* C7: enter in the search state with a text that is no locator makes the
\* text the owner, moves to LoadingModules and returns listModules of it;
\* the modulesMsg then moves to BrowsingModules with the modules it holds.
C7_BareOwnerSubmit ==
    [][/\ (/\ m.state = modelStateSearching
           /\ IsKey(last', EnterKeys)
           /\ parseReference(m.searchInput).kind # "ok")
              => /\ m'.currentOwner = m.searchInput
                 /\ m'.state = modelStateLoadingModules
                 /\ last'.cmd = listModules(m.searchInput)
       /\ last'.msg.type = "modulesMsg"
              => /\ m'.state = modelStateBrowsingModules
                 /\ m'.currentModules = last'.msg.items]_vars

\* C8: enter in the search state with a text that parses as a locator moves
\* to LoadingReference and returns getResource of the locator; the text is
\* not made the owner and no listModules is returned.
C8_LocatorSubmit ==
    [][(/\ m.state = modelStateSearching
        /\ IsKey(last', EnterKeys)
        /\ parseReference(m.searchInput).kind = "ok")
           => /\ m'.state = modelStateLoadingReference
              /\ last'.cmd = getResource(parseReference(m.searchInput).name)
              /\ m'.currentOwner # m.searchInput]_vars

\* C9: a resourceMsg that holds a Commit sets owner and module from the
\* request and the commit from the resource, moves to
\* LoadingCommitFileContents and returns getCommitContent of the three; when
\* that command delivers a contentsMsg the state becomes
\* BrowsingCommitContents.
C9_ResolvedCommit ==
    (last.msg.type = "resourceMsg" /\ last.msg.retrieved.kind = "Commit")
        => /\ m.currentOwner = last.msg.requested.owner
           /\ m.currentModule = last.msg.requested.module
           /\ m.currentCommit = last.msg.retrieved.id
           /\ m.state = modelStateLoadingCommitFileContents
           /\ last.cmd = getCommitContent(m.currentOwner, m.currentModule,
                                          m.currentCommit)
           /\ \A msg \in RunCmd(last.cmd) :
                  msg.type = "contentsMsg"
                      => /\ Update(m, msg).exit = ""
                         /\ After(m, msg).state =
                                modelStateBrowsingCommitContents

\* C10: a resourceMsg that holds a Module moves to LoadingCommits and returns
\* one listCommits, of the owner of the request that the message carries
\* (the request of the command that delivered it) and of the name of the
\* resolved module.
C10_ResolvedModule ==
    (last.msg.type = "resourceMsg" /\ last.msg.retrieved.kind = "Module")
        => /\ last.msg.requested = RequestedResource(last.from)
           /\ last.exit = ""
           /\ m.state = modelStateLoadingCommits
           /\ m.currentOwner = last.msg.requested.owner
           /\ m.currentModule = last.msg.retrieved.name
           /\ last.cmd = listCommits(last.msg.requested.owner,
                                     last.msg.retrieved.name)
           /\ CopiesIn(last.cmd, pending) >= 1

\* A getResource has resolved to a module whose name is not the requested
\* one.
C10_Witness ==
    /\ last.msg.type = "resourceMsg"
    /\ last.msg.retrieved.kind = "Module"
    /\ last.msg.retrieved.name # last.msg.requested.module
    /\ m.state = modelStateLoadingCommits

\* The messages the commands in flight can deliver.
Deliverable == UNION { RunCmd(cmd) : cmd \in BagToSet(pending) }

\* C11: a resourceMsg that holds a Label, or any resource that is neither a
\* Module nor a Commit, makes Update record an error, return tea.Quit and no
\* fetch, and leave state and context as they were.
C11_UnsupportedResourceIsFatal ==
    \A msg \in Deliverable :
        (msg.type = "resourceMsg"
             /\ msg.retrieved.kind \notin { "Module", "Commit" })
            => LET r == Update(m, msg)
               IN  /\ r.exit = "quit"
                   /\ r.cmd = NoCmd
                   /\ r.m.err # ""
                   /\ r.m.state = m.state
                   /\ Context(r.m) = Context(m)

\* A getResource has resolved to a Label and the loop has ended.
C11_Witness ==
    /\ last.msg.type = "resourceMsg"
    /\ last.msg.retrieved.kind = "Label"
    /\ running = "quit"
    /\ m.err # ""
    /\ m.state = modelStateLoadingReference

\* View shows the error, whatever the state, once err is set.
Errored(mm) == mm.err # ""

\* Every key a KeyMsg can be: the keys of the bindings and text.
AllKeys ==
    QuitKeys \cup HelpKeys \cup SearchKeys \cup EnterKeys \cup RightKeys
        \cup LeftKeys \cup UpKeys \cup DownKeys \cup RuneKeys \cup { PasteKey }

Inputs == Deliverable \cup { KeyMsg(key) : key \in AllKeys }

\* C13 as stated: in every Browsing state a back key moves the machine to
\* another state and returns a fetch.
C13_GoBackRefetchesEverywhere ==
    m.state \in BrowsingStates =>
        \A key \in LeftKeys :
            LET r == Update(m, KeyMsg(key))
            IN  r.m.state # m.state /\ r.cmd.op \in FetchOps

\* C13, amended: a back key in BrowsingCommitContents moves to LoadingCommits
\* and returns listCommits of the current owner and module, in
\* BrowsingCommits it moves to LoadingModules and returns listModules of the
\* current owner; in BrowsingCommitFileContents it only moves back to
\* BrowsingCommitContents and in BrowsingModules it changes neither state nor
\* context, both without a fetch.  The lists of modules and of commits are
\* never entered again but by the message of a fetch, which replaces the
\* collection, and the files but by a contentsMsg or from the file's view.
C13_GoBackRefetchesLists ==
    /\ \A key \in LeftKeys :
           LET r == Update(m, KeyMsg(key))
           IN  /\ m.state = modelStateBrowsingCommitContents
                      => r = Return([m EXCEPT !.state = modelStateLoadingCommits],
                                    listCommits(m.currentOwner, m.currentModule))
               /\ m.state = modelStateBrowsingCommits
                      => r = Return([m EXCEPT !.state = modelStateLoadingModules],
                                    listModules(m.currentOwner))
               /\ m.state = modelStateBrowsingCommitFileContents
                      => r = Return([m EXCEPT !.state =
                                                  modelStateBrowsingCommitContents],
                                    NoCmd)
               /\ m.state = modelStateBrowsingModules
                      => /\ r.exit = "" /\ r.cmd = NoCmd
                         /\ r.m.state = m.state /\ Context(r.m) = Context(m)
    /\ \A msg \in Inputs :
           LET a == After(m, msg)
           IN  /\ (a.state = modelStateBrowsingModules
                       /\ m.state # modelStateBrowsingModules)
                      => msg.type = "modulesMsg" /\ a.currentModules = msg.items
               /\ (a.state = modelStateBrowsingCommits
                       /\ m.state # modelStateBrowsingCommits)
                      => msg.type = "commitsMsg" /\ a.currentCommits = msg.items
               /\ (a.state = modelStateBrowsingCommitContents
                       /\ m.state \notin { modelStateBrowsingCommitContents,
                                           modelStateBrowsingCommitFileContents })
                      => msg.type = "contentsMsg"
                             /\ a.currentCommitFiles = msg.items

\* A back key has left the commit's contents, and the commits are being
\* fetched again.
C13_Witness ==
    /\ IsKey(last, LeftKeys)
    /\ m.state = modelStateLoadingCommits
    /\ m.currentCommitFiles # <<>>
    /\ last.cmd = listCommits(m.currentOwner, m.currentModule)

\* C14: in every state, with or without an error recorded, each of the quit
\* keys q, esc and ctrl+c makes Update return tea.Quit with the model as it
\* is and no fetch.
C14_QuitEverywhere ==
    \A key \in { "q", "esc", "ctrl+c" } :
        /\ Update(m, KeyMsg(key)) = ReturnQuit(m)
        /\ ReturnQuit(m).cmd = NoCmd
        /\ ReturnQuit(m).exit = "quit"

\* A quit key has ended the loop after an error was recorded.
C14_Witness ==
    /\ IsKey(last, QuitKeys)
    /\ running = "quit"
    /\ last.cmd = NoCmd
    /\ Errored(m)

\* C15: before any message is handled no error is set; started with the
\* empty reference, for which parseReference returns neither a name nor an
\* error, the model is in the search state and Init has started no fetch;
\* started with a reference that parses, the model is in LoadingReference
\* and Init has started exactly one getResource, of the parsed name.
C15_InitialState ==
    /\ parseReference(<<>>) = ParseResult("none", <<>>, NoName)
    /\ \A reference \in StartupReferences :
           LET parsed == parseReference(reference)
               mm == NewModel(parsed)
           IN  /\ mm.err = ""
               /\ reference = <<>>
                      => mm.state = modelStateSearching /\ modelInit(mm) = NoCmd
               /\ (reference # <<>> /\ parsed.kind = "ok")
                      => /\ mm.state = modelStateLoadingReference
                         /\ modelInit(mm) = getResource(parsed.name)
    /\ last.msg = NoMsg =>
           /\ m.err = ""
           /\ m.currentReference.kind = "none"
                  => m.state = modelStateSearching /\ pending = EmptyBag
           /\ m.currentReference.kind = "ok"
                  => /\ m.state = modelStateLoadingReference
                     /\ pending = SetToBag({ getResource(m.currentReference.name) })

\* The program has started with a reference and nothing has been handled yet.
C15_Witness ==
    /\ last.msg = NoMsg
    /\ m.state = modelStateLoadingReference
    /\ InFlight("getResource") = 1
    /\ BagCardinality(pending) = 1

(***************************************************************************)
(* parseReference on its own: run up to the parse of the -r flag.          *)
(***************************************************************************)
\* The characters references are made of: a letter and the two separators.
Alphabet == { "a", "/", ":" }

\* strings.Repeat(s, n) for a one-character s
Repeat(ch, n) == [i \in 1..n |-> ch]

\* References with an owner around the longest the rules accept.
LongOwnerReferences ==
    { Repeat("a", n) \o <<"/", "a", "a">> :
          n \in (MaxOwnerLen - 1)..(MaxOwnerLen + 1) }

\* References with parts that differ from each other.
SampleReferences ==
    { <<"b", "/", "r", "g">>,
      <<"h", "/", "b", "/", "r", "g">>,
      <<"h", "/", "b", "/", "r", "g", ":", "c">>,
      <<"b", "/", "r", "g", ":", "x", "/", "y">>,
      <<"h", "/", "b", "/", "r", "g", ":", "x", "/", "y">>,
      <<"b", "/", "r">> }

\* The references the parser is run on.
References ==
    UNION { [1..n -> Alphabet] : n \in 0..MaxRefLen }
        \cup LongOwnerReferences \cup SampleReferences

\* parsedFlag before parseReference has returned
NotParsed == ParseResult("unparsed", <<>>, NoName)

\* Values of the --remote flag: empty, a remote references name, the default.
RemoteFlags == { <<>>, <<"a">>, DefaultRemote }

\* run, main.go:729-746: the flags are read
InitParse ==
    \E reference \in References, flag \in RemoteFlags :
        /\ referenceFlag = reference
        /\ remoteFlag = flag
        /\ address = <<>>
        /\ parsedFlag = NotParsed
        /\ m = NewModel(ParseResult("none", <<>>, NoName))
        /\ pending = EmptyBag
        /\ started = 0
        /\ running = "parsing"
        /\ last = Last(NoMsg, NoCmd, NoCmd, "")
        /\ silent = {}

\* run, main.go:747-806: the reference is parsed and the remote chosen; an
\* error or a panic ends the program, else the client is made for the
\* remote and the model is built from the parsed reference.
Parse ==
    LET parsed == parseReference(referenceFlag)
        built == /\ parsed.kind \in { "none", "ok" }
                 /\ RemoteError(remoteFlag, parsed.remote) = ""
    IN  /\ running = "parsing"
        /\ parsedFlag' = parsed
        /\ running' = CASE built -> "built"
                        [] parsed.kind = "panic" -> "panic"
                        [] OTHER -> "error"
        /\ address' = IF built
                       THEN EffectiveRemote(remoteFlag, parsed.remote)
                       ELSE address
        /\ m' = IF built THEN NewModel(parsed) ELSE m
        /\ UNCHANGED <<pending, started, last, referenceFlag, silent,
                       remoteFlag>>

NextParse == Parse

SpecParse == InitParse /\ [][NextParse]_vars

\* parseReference has returned for the reference of the flag.
Parsed == parsedFlag # NotParsed

\* The reading of a text by the grammar [<remote>/]<owner>/<module>[:<ref>]:
\* the text is cut at its first ":", the part before it at its "/"; form
\* tells whether that part has one or two "/" and the ref no further ":".
Grammar(s) ==
    LET c == Cut(s, ":")
        k == Count(c.before, "/")
        c1 == Cut(c.before, "/")
        c2 == Cut(c1.after, "/")
    IN  [form |-> k \in { 1, 2 } /\ Count(c.after, ":") = 0,
         slashes |-> k,
         remote |-> IF k = 2 THEN c1.before ELSE <<>>,
         name |-> ResourceRefName(IF k = 2 THEN c2.before ELSE c1.before,
                                  IF k = 2 THEN c2.after ELSE c1.after,
                                  IF c.found THEN <<c.after>> ELSE <<>>)]

\* C16: for a reference of the form [remote/]owner/module[:ref] whose owner
\* and module pass the validation, parseReference returns no error, the name
\* with owner, module and ref as the grammar delimits them (the ref present
\* iff a ":" is), and as remote the first segment when there are two "/",
\* else the empty remote.
C16_ParsesTheGrammar ==
    (Parsed /\ Grammar(referenceFlag).form
         /\ Validate(Grammar(referenceFlag).name))
        => parsedFlag = ParseResult("ok", Grammar(referenceFlag).remote,
                                    Grammar(referenceFlag).name)

\* C17: the "/" that select the form are those before the ":": with one the
\* result has no remote, with two it has the first segment as remote, in both
\* cases owner and module as delimited, or the error of the validation; with
\* any other number the result is the syntax error, whatever the ref holds.
C17_SlashesBeforeColon ==
    (Parsed /\ referenceFlag # <<>> /\ Count(referenceFlag, ":") <= 1)
        => LET g == Grammar(referenceFlag)
           IN  IF g.slashes \in { 1, 2 }
               THEN \/ parsedFlag = ParseResult("ok", g.remote, g.name)
                    \/ parsedFlag = ParseResult("validation", <<>>, NoName)
               ELSE parsedFlag = ParseResult("syntax", <<>>, NoName)

\* C18 as stated: a reference with zero, one or more than two "/", or with
\* more than one ":", gets the syntax error and no name.
C18_SyntaxErrorAsStated ==
    (Parsed /\ (\/ Count(referenceFlag, "/") \in { 0, 1 }
                \/ Count(referenceFlag, "/") > 2
                \/ Count(referenceFlag, ":") > 1))
        => parsedFlag = ParseResult("syntax", <<>>, NoName)

\* C18, amended: a reference that is not empty and has no "/" or more than
\* two, or more than one ":", gets the syntax error and no name.
C18_SyntaxError ==
    (Parsed /\ referenceFlag # <<>>
         /\ (\/ Count(referenceFlag, "/") = 0
             \/ Count(referenceFlag, "/") > 2
             \/ Count(referenceFlag, ":") > 1))
        => parsedFlag = ParseResult("syntax", <<>>, NoName)

\* A reference with one or two "/" and several ":" has got the syntax error.
C18_Witness ==
    /\ Parsed
    /\ Count(referenceFlag, "/") \in { 1, 2 }
    /\ Count(referenceFlag, ":") > 1
    /\ parsedFlag = ParseResult("syntax", <<>>, NoName)
    /\ running = "error"

\* C19: for a reference of the form of the grammar whose name the validation
\* rejects, parseReference returns no name and the error of the validation.
C19_ValidationErrorSurfaces ==
    (Parsed /\ Grammar(referenceFlag).form
         /\ ~Validate(Grammar(referenceFlag).name))
        => parsedFlag = ParseResult("validation", <<>>, NoName)

\* Locators without a remote: a valid owner and module and an optional ref,
\* which holds no ":".
Locators ==
    { ResourceRefName(owner, module, child) :
          owner \in { <<"a">>, <<"b">>, <<"a", "a">> },
          module \in { <<"a", "a">>, <<"r", "g">> },
          child \in { <<>> } \cup
                    { <<ref>> : ref \in { <<>>, <<"a">>, <<"c">>, <<"a", "a">>,
                                          <<"x", "/", "y">>, <<"a", "/", "a">>,
                                          <<"/">> } } }

\* The text owner/module[:ref] of a locator without a remote.
Format(name) ==
    name.owner \o <<"/">> \o name.module
        \o (IF name.child = <<>> THEN <<>> ELSE <<":">> \o name.child[1])

\* C20: parseReference of the text rendered from a locator without a remote
\* returns that locator and the empty remote.
C20_RoundTrip ==
    Parsed =>
        \A name \in Locators :
            Format(name) = referenceFlag
                => parsedFlag = ParseResult("ok", <<>>, name)

\* C21: a syntax or validation error of parseReference is recoverable: the
\* program does not end with it, no error is set in the model and state and
\* context stay as they were.
C21_ResolverErrorRecoverable ==
    (Parsed /\ parsedFlag.kind \in { "syntax", "validation" })
        => /\ running # "error"
           /\ m.err = ""
           /\ m.state = modelStateSearching
           /\ Context(m) = Context(NewModel(ParseResult("none", <<>>, NoName)))

\* The type of the message a command delivers when it succeeds.
OwnMsgType(op) ==
    CASE op = "listModules" -> "modulesMsg"
      [] op = "listCommits" -> "commitsMsg"
      [] op = "getCommitContent" -> "contentsMsg"
      [] op = "getResource" -> "resourceMsg"

\* C22: a command in flight delivers one message, of its own type or an
\* errMsg, and is then no longer in flight; nothing starts it again: an
\* errMsg makes Update return no command, and the commands in flight only
\* grow by the one command Update returns.
C22_OneShot ==
    [][/\ \A cmd \in BagToSet(pending) :
              \A msg \in RunCmd(cmd) :
                  msg.type \in { OwnMsgType(cmd.op), "errMsg" }
       /\ last'.from # NoCmd
              => /\ BagIn(last'.from, pending)
                 /\ last'.msg.type \in { OwnMsgType(last'.from.op), "errMsg" }
                 /\ pending' = (pending (-) SetToBag({ last'.from }))
                                   (+) CmdBag(last'.cmd)
       /\ last'.from = NoCmd
              => /\ last'.msg.type = "KeyMsg"
                 /\ pending' = pending (+) CmdBag(last'.cmd)
       /\ last'.msg.type = "errMsg" => last'.cmd = NoCmd]_vars

\* A listModules has failed and nothing is in flight after it.
C22_Witness ==
    /\ last.msg.type = "errMsg"
    /\ last.from.op = "listModules"
    /\ last.cmd = NoCmd
    /\ pending = EmptyBag
    /\ running = "running"

(***************************************************************************)
(* The program with a remote that may never answer a request.  The calls   *)
(* of the client are made with context.Background(), client.go:227, 250,   *)
(* 279 and 308: they have no deadline and return when the remote answers.  *)
(***************************************************************************)
\* The remote leaves the request of a command in flight without an answer.
RemoteSilent(cmd) ==
    /\ running = "running"
    /\ BagIn(cmd, pending)
    /\ cmd \notin silent
    /\ silent' = silent \cup { cmd }
    /\ UNCHANGED <<m, pending, started, running, last, referenceFlag,
                   parsedFlag, remoteFlag, address>>

\* A command whose request the remote answers delivers its message.
Deliver ==
    \E cmd \in BagToSet(pending) :
        \E msg \in RunCmd(cmd) : Complete(cmd, msg, MaxStartedLive)

NextLive ==
    \/ \E key \in Keys : PressKey(key, MaxStartedLive)
    \/ Deliver
    \/ \E cmd \in BagToSet(pending) : RemoteSilent(cmd)

\* The goroutine of a command returns its message once the remote has
\* answered, and the loop handles it; the user is not bound to press keys.
SpecLive == Init /\ [][NextLive]_vars /\ WF_vars(Deliver)

\* C23: a fetch in flight eventually delivers a message, so the machine does
\* not stay in a Loading state with a fetch in flight forever.
C23_EveryFetchDelivers ==
    /\ \A op \in FetchOps :
           (running = "running" /\ InFlight(op) > 0)
               ~> (running # "running" \/ InFlight(op) = 0
                       \/ last.from.op = op)
    /\ (running = "running" /\ m.state \in LoadingStates /\ pending # EmptyBag)
           ~> (running # "running" \/ m.state \notin LoadingStates
                   \/ Errored(m))

\* The exit status of the process once it has ended, main.go:722-727 and
\* 812-815: 1 when run returns an error, which is the error of the parse of
\* the flag or the error of Program.Run (a panic in Update is recovered by
\* bubbletea and returned as one); 0 when the loop ends by tea.Quit, whose
\* final model run drops.
ExitStatus ==
    CASE running = "quit" -> 0
      [] running \in { "error", "panic" } -> 1
      [] OTHER -> -1

\* C24: when the loop has ended with an error recorded in the model, the
\* exit status of the process is not zero.
C24_ErrorExitsNonZero ==
    (running = "quit" /\ Errored(m)) => ExitStatus # 0

\* The Browsing state a successful message of a collection leads to.
BrowsingStateOf(type) ==
    CASE type = "modulesMsg" -> modelStateBrowsingModules
      [] type = "commitsMsg" -> modelStateBrowsingCommits
      [] type = "contentsMsg" -> modelStateBrowsingCommitContents

\* The collection of the level of a message.
CollectionOf(mm, type) ==
    CASE type = "modulesMsg" -> mm.currentModules
      [] type = "commitsMsg" -> mm.currentCommits
      [] type = "contentsMsg" -> mm.currentCommitFiles

CollectionMsgs == { "modulesMsg", "commitsMsg", "contentsMsg" }

\* C25: a modulesMsg, commitsMsg or contentsMsg with no items moves to the
\* Browsing state of its level with the empty collection; Update returns
\* normally and sets no error.
C25_EmptyCollectionIsBrowsable ==
    \A msg \in Deliverable :
        (msg.type \in CollectionMsgs /\ msg.items = <<>>)
            => LET r == Update(m, msg)
               IN  /\ r.exit = ""
                   /\ After(m, msg).state = BrowsingStateOf(msg.type)
                   /\ CollectionOf(After(m, msg), msg.type) = <<>>
                   /\ After(m, msg).err = m.err

\* C26: a modulesMsg, commitsMsg or contentsMsg makes its items the
\* collection of its level and leaves the collections of the other levels
\* and the context as they were.
C26_CollectionReplaced ==
    \A msg \in Deliverable :
        msg.type \in CollectionMsgs
            => LET a == After(m, msg)
               IN  /\ Update(m, msg).exit = ""
                   /\ CollectionOf(a, msg.type) = msg.items
                   /\ \A other \in CollectionMsgs \ { msg.type } :
                          CollectionOf(a, other) = CollectionOf(m, other)
                   /\ Context(a) = Context(m)

\* C27: an advance key in BrowsingCommitContents moves to
\* BrowsingCommitFileContents and a back key there moves back; nothing else
\* of the model changes (context, files, the selected file and the viewport
\* among it) and no command is returned.
C27_FocusOnly ==
    /\ m.state = modelStateBrowsingCommitContents
           => \A key \in AdvanceKeys :
                  Update(m, KeyMsg(key)) =
                      Return([m EXCEPT !.state =
                                           modelStateBrowsingCommitFileContents],
                             NoCmd)
    /\ m.state = modelStateBrowsingCommitFileContents
           => \A key \in LeftKeys :
                  Update(m, KeyMsg(key)) =
                      Return([m EXCEPT !.state =
                                           modelStateBrowsingCommitContents],
                             NoCmd)

\* A back key has returned from the view of the second file to the files.
C27_Witness ==
    /\ IsKey(last, LeftKeys)
    /\ m.state = modelStateBrowsingCommitContents
    /\ last.cmd = NoCmd
    /\ m.commitFilesList.index = 1
    /\ m.currentCommitFiles # <<>>

\* C28: in a Browsing state the help key flips the help flag and changes
\* nothing else of the model (state, context, collections), returns no
\* command and does not end the loop; a second help key gives the model
\* back as it was.
C28_HelpToggleOnly ==
    m.state \in BrowsingStates =>
        \A key \in HelpKeys :
            LET r == Update(m, KeyMsg(key))
            IN  /\ r = Return([m EXCEPT !.help = ~m.help], NoCmd)
                /\ r.m.state = m.state
                /\ Context(r.m) = Context(m)
                /\ Collections(r.m) = Collections(m)
                /\ Update(r.m, KeyMsg(key)) = Return(m, NoCmd)

\* The help key has opened the help in a Browsing state.
C28_Witness ==
    /\ IsKey(last, HelpKeys)
    /\ m.state \in BrowsingStates
    /\ m.help
    /\ last.cmd = NoCmd
    /\ running = "running"

C30_ParseNeverPanics ==
    Parsed => /\ parsedFlag.kind \in { "none", "ok", "syntax", "validation" }
              /\ running # "panic"

\* The Loading state Update enters where it returns a command of that
\* type of message (from the search state it returns listModules and stays).
LoadingStateOf(type) ==
    CASE type = "resourceMsg" -> modelStateLoadingReference
      [] type = "modulesMsg" -> modelStateLoadingModules
      [] type = "commitsMsg" -> modelStateLoadingCommits
      [] type = "contentsMsg" -> modelStateLoadingCommitFileContents

ResultMsgs == CollectionMsgs \cup { "resourceMsg" }

\* The machine is in a state that no fetch of that type of message has
\* entered: a Browsing state, the Loading state of another fetch, or the
\* search state for a fetch that is not issued from it.
MovedElsewhere(mm, type) ==
    \/ mm.state \in BrowsingStates
    \/ mm.state \in LoadingStates \ { LoadingStateOf(type) }
    \/ mm.state = modelStateSearching /\ type # "modulesMsg"

\* C31: a modulesMsg, commitsMsg, contentsMsg or resourceMsg delivered when
\* the machine has left the state its fetch had entered (the user has opened
\* the search input, or browses or loads another level) does not move the
\* machine to a Browsing or Loading state.
C31_LateResultDoesNotMove ==
    \A msg \in Deliverable :
        (msg.type \in ResultMsgs /\ MovedElsewhere(m, msg.type))
            => LET a == After(m, msg)
               IN  a.state # m.state
                       => a.state \notin BrowsingStates \cup LoadingStates

\* The entries a command returns when the remote answers it: the items of
\* the messages it can deliver.
Returned(cmd) ==
    UNION { { msg.items[i] : i \in 1..Len(msg.items) } : msg \in RunCmd(cmd) }

\* C32: the getCommitContent an advance key returns in a Browsing state names
\* a commit that listCommits of the same owner and module returns, and the
\* listCommits it returns names a module that listModules of the same owner
\* returns.
C32_AdvanceNamesFetchedEntry ==
    m.state \in BrowsingStates =>
        \A key \in AdvanceKeys :
            LET cmd == Update(m, KeyMsg(key)).cmd
            IN  /\ cmd.op = "listCommits"
                       => cmd.module \in Returned(listModules(cmd.owner))
                /\ cmd.op = "getCommitContent"
                       => cmd.commit \in
                              Returned(listCommits(cmd.owner, cmd.module))

\* C33: in the search state a key of one printable character is appended to
\* the text of the input and has no other effect: the rest of the model
\* stays as it is, no command is returned and the loop goes on; so the
\* owner enter submits is the text as typed.
C33_TypedTextVerbatim ==
    m.state = modelStateSearching =>
        /\ \A key \in RuneKeys :
               Update(m, KeyMsg(key)) =
                   Return([m EXCEPT !.searchInput = m.searchInput \o <<key>>],
                          NoCmd)
        /\ \A key \in EnterKeys :
               Update(m, KeyMsg(key)).m.currentOwner = m.searchInput

\* C34: in every state but the search state, the Loading states with a fetch
\* in flight among them, the search key moves to the search state with an
\* empty input, returns no command and changes nothing else of the model
\* (context and collections among it); in the search state the key is
\* appended to the text of the input and nothing else changes.
C34_SearchKey ==
    \A key \in SearchKeys :
        LET r == Update(m, KeyMsg(key))
        IN  /\ m.state # modelStateSearching
                   => /\ r = Return([m EXCEPT !.state = modelStateSearching,
                                              !.searchInput = <<>>],
                                    NoCmd)
                      /\ Context(r.m) = Context(m)
                      /\ Collections(r.m) = Collections(m)
            /\ m.state = modelStateSearching
                   => r = Return([m EXCEPT !.searchInput =
                                               m.searchInput \o <<key>>],
                                 NoCmd)

\* The search key has opened an empty input while commits were loading,
\* after an owner had been typed and its modules fetched.
C34_Witness ==
    /\ IsKey(last, SearchKeys)
    /\ m.state = modelStateSearching
    /\ m.searchInput = <<>>
    /\ InFlight("listCommits") = 1
    /\ m.currentModules # <<>>
    /\ m.currentOwner = OwnerB
    /\ last.cmd = NoCmd

\* model.View, main.go:1144-1196: the error alone when one is recorded, else
\* the screen of the state
View(mm) ==
    IF mm.err # ""
    THEN <<"error: ", mm.err>>
    ELSE CASE mm.state \in LoadingStates -> <<"spinner", mm.state>>
           [] mm.state = modelStateBrowsingModules ->
                  IF Len(mm.currentModules) = 0
                  THEN <<"No modules found for owner">>
                  ELSE <<"moduleList", mm.moduleList>>
           [] mm.state = modelStateBrowsingCommits ->
                  IF Len(mm.currentCommits) = 0
                  THEN <<"No commits found for module">>
                  ELSE <<"commitList", mm.commitList>>
           [] mm.state \in { modelStateBrowsingCommitContents,
                             modelStateBrowsingCommitFileContents } ->
                  <<"commitFilesList", mm.commitFilesList,
                    "fileViewport", mm.fileViewport, mm.state>>
           [] mm.state = modelStateSearching ->
                  <<"searchInput", mm.searchInput, "help", mm.help>>

\* C35: an error recorded in the model is never cleared: whatever message
\* Update is handed next, a key or the message of a fetch that succeeded, an
\* error is recorded afterwards (the same one, unless the message itself
\* records an error) and View shows the error and nothing else.
C35_ErrorNeverCleared ==
    Errored(m) =>
        \A msg \in Inputs :
            LET a == After(m, msg)
            IN  /\ Errored(a)
                /\ a.err = m.err \/ msg.type \in { "errMsg", "resourceMsg" }
                /\ View(a) = <<"error: ", a.err>>

\* The modules of an owner have arrived after the failure of another fetch,
\* and the error is still recorded.
C35_Witness ==
    /\ last.msg.type = "modulesMsg"
    /\ last.msg.items # <<>>
    /\ m.state = modelStateBrowsingModules
    /\ Errored(m)
    /\ running = "running"

(***************************************************************************)
(* The program with a remote that answers every request.                   *)
(***************************************************************************)
NextAnswering ==
    \/ \E key \in Keys : PressKey(key, MaxStartedLive)
    \/ Deliver

\* Every command in flight delivers its message; the user may press keys,
\* or none.
SpecAnswering == Init /\ [][NextAnswering]_vars /\ WF_vars(Deliver)

\* C36: when every fetch delivers its message, the machine does not stay in
\* a Loading state: unless the user presses a key that opens the search
\* input, it reaches a Browsing state, records an error or quits.
C36_LoadingEnds ==
    (running = "running" /\ m.state \in LoadingStates)
        ~> \/ m.state \in BrowsingStates
           \/ Errored(m)
           \/ running = "quit"
           \/ m.state = modelStateSearching

\* model.ShortHelp, main.go:1352-1379: the bindings of the key hints, by the
\* names of the fields of keys
ShortHelp(mm) ==
    CASE mm.state = modelStateBrowsingModules ->
             <<"Up", "Down">>
                 \o (IF Len(mm.currentModules) = 0 THEN <<"Right">> ELSE <<>>)
                 \o <<"Help">>
      [] mm.state \in { modelStateBrowsingCommits,
                        modelStateBrowsingCommitContents } ->
             <<"Up", "Down", "Left">>
                 \o (IF Len(mm.currentCommits) = 0 THEN <<"Right">> ELSE <<>>)
                 \o <<"Help">>
      [] mm.state = modelStateBrowsingCommitFileContents ->
             <<"Up", "Down", "Left", "Help">>
      [] mm.state = modelStateSearching -> <<"Enter", "Help">>
      [] OTHER -> <<"Help", "Quit">>

\* The binding is among the key hints of the model.
Listed(binding, mm) ==
    \E i \in 1..Len(ShortHelp(mm)) : ShortHelp(mm)[i] = binding

\* C37: the key hints list "go in" (Right) in BrowsingModules only when there
\* are modules and in BrowsingCommits only when there are commits; they do
\* not list "go out" (Left) in BrowsingModules nor "go in" in
\* BrowsingCommitFileContents.
C37_HintsArePossible ==
    /\ (m.state = modelStateBrowsingModules /\ Listed("Right", m))
           => m.currentModules # <<>>
    /\ (m.state = modelStateBrowsingCommits /\ Listed("Right", m))
           => m.currentCommits # <<>>
    /\ m.state = modelStateBrowsingModules => ~Listed("Left", m)
    /\ m.state = modelStateBrowsingCommitFileContents => ~Listed("Right", m)

FileStates ==
    { modelStateBrowsingCommitContents, modelStateBrowsingCommitFileContents }

\* The text of the file of the commit that is under the cursor of the list
\* of files, as highlightFile renders it.
SelectedFileText(mm) ==
    LET file == mm.currentCommitFiles[mm.commitFilesList.index + 1]
    IN  highlightFile(file.path, file.content).text

C39_EffectiveRemote ==
    (Parsed /\ parsedFlag.kind \in { "none", "ok" })
        => IF \/ /\ remoteFlag # <<>>
                 /\ parsedFlag.remote # <<>>
                 /\ remoteFlag # parsedFlag.remote
              \/ remoteFlag = <<>> /\ parsedFlag.remote = <<>>
           THEN /\ running = "error"
                /\ address = <<>>
                /\ m = NewModel(ParseResult("none", <<>>, NoName))
                /\ pending = EmptyBag
           ELSE /\ running = "built"
                /\ address = IF remoteFlag # <<>>
                             THEN remoteFlag
                             ELSE parsedFlag.remote
                /\ m = NewModel(parsedFlag)

\* Without a --remote value, the program has started with the remote of the
\* reference.
C39_Witness ==
    /\ Parsed
    /\ remoteFlag = <<>>
    /\ parsedFlag.kind = "ok"
    /\ parsedFlag.remote # <<>>
    /\ running = "built"
    /\ address = parsedFlag.remote

====
